---- MODULE Spec2Model ----
(***************************************************************************)
(* Model of heredity.py: exact inference by enumeration over a pedigree.   *)
(* Python floats are modelled by exact rationals Rat == [num, den] whose   *)
(* numerator and denominator are arbitrary-precision naturals (Big):       *)
(* little-endian sequences of limbs in 0..9999 without leading zero limbs, *)
(* so that <<>> is 0 and equal numbers are equal sequences.                *)
(***************************************************************************)
EXTENDS Integers, Sequences, FiniteSets, TLC

(* ---------------- arbitrary-precision naturals ---------------- *)
RECURSIVE BigOfNat(_)
BigOfNat(n) ==
    IF n = 0 THEN <<>> ELSE <<n % 10000>> \o BigOfNat(n \div 10000)

RECURSIVE BigAddC(_, _, _)
BigAddC(a, b, c) ==
    IF b = <<>> /\ c = 0 THEN a
    ELSE IF a = <<>> /\ c = 0 THEN b
    ELSE LET x == IF a = <<>> THEN 0 ELSE a[1]
             y == IF b = <<>> THEN 0 ELSE b[1]
             t == x + y + c
             ra == IF a = <<>> THEN <<>> ELSE Tail(a)
             rb == IF b = <<>> THEN <<>> ELSE Tail(b)
         IN  <<t % 10000>> \o BigAddC(ra, rb, t \div 10000)

BigAdd(a, b) == BigAddC(a, b, 0)

RECURSIVE BigMulSmallC(_, _, _)
BigMulSmallC(a, k, c) ==
    IF a = <<>> THEN BigOfNat(c)
    ELSE LET t == a[1] * k + c
         IN  <<t % 10000>> \o BigMulSmallC(Tail(a), k, t \div 10000)

\* a * k for a limb-sized k (0 <= k < 10000)
BigMulSmall(a, k) == IF k = 0 THEN <<>> ELSE BigMulSmallC(a, k, 0)

BigShift(a) == IF a = <<>> THEN <<>> ELSE <<0>> \o a

RECURSIVE BigMulBy(_, _)
BigMulBy(a, b) ==
    IF a = <<>> THEN <<>>
    ELSE BigAdd(BigMulSmall(b, a[1]), BigShift(BigMulBy(Tail(a), b)))

BigMul(a, b) ==
    IF a = <<>> \/ b = <<>> THEN <<>>
    ELSE IF a = <<1>> THEN b
    ELSE IF b = <<1>> THEN a
    ELSE IF Len(a) = 1 THEN BigMulSmallC(b, a[1], 0)
    ELSE IF Len(b) = 1 THEN BigMulSmallC(a, b[1], 0)
    ELSE IF Len(a) <= Len(b) THEN BigMulBy(a, b) ELSE BigMulBy(b, a)

\* strips leading (most significant) zero limbs
RECURSIVE BigTrim(_)
BigTrim(a) ==
    IF a = <<>> THEN <<>>
    ELSE IF a[Len(a)] = 0 THEN BigTrim(SubSeq(a, 1, Len(a) - 1))
    ELSE a

RECURSIVE BigSubB(_, _, _)
BigSubB(a, b, brw) ==
    IF a = <<>> THEN <<>>
    ELSE LET y == IF b = <<>> THEN 0 ELSE b[1]
             t == a[1] - y - brw
             rb == IF b = <<>> THEN <<>> ELSE Tail(b)
         IN  IF t < 0 THEN <<t + 10000>> \o BigSubB(Tail(a), rb, 1)
             ELSE <<t>> \o BigSubB(Tail(a), rb, 0)

\* a - b for a >= b
BigSub(a, b) == BigTrim(BigSubB(a, b, 0))

(* ---------------- exact rationals ---------------- *)
Rat(n, d) == [num |-> BigOfNat(n), den |-> BigOfNat(d)]

RatZero == [num |-> <<>>, den |-> <<1>>]

RatOne == [num |-> <<1>>, den |-> <<1>>]

RatIsZero(a) == a.num = <<>>

RatEq(a, b) == BigMul(a.num, b.den) = BigMul(b.num, a.den)

RatAdd(a, b) ==
    IF a.den = b.den THEN [num |-> BigAdd(a.num, b.num), den |-> a.den]
    ELSE [num |-> BigAdd(BigMul(a.num, b.den), BigMul(b.num, a.den)),
          den |-> BigMul(a.den, b.den)]

\* a - b for a >= b
RatSub(a, b) ==
    IF a.den = b.den THEN [num |-> BigSub(a.num, b.num), den |-> a.den]
    ELSE [num |-> BigSub(BigMul(a.num, b.den), BigMul(b.num, a.den)),
          den |-> BigMul(a.den, b.den)]

RatMul(a, b) == [num |-> BigMul(a.num, b.num), den |-> BigMul(a.den, b.den)]

\* a / b for b # 0
RatDiv(a, b) ==
    IF a.den = b.den THEN [num |-> a.num, den |-> b.num]
    ELSE [num |-> BigMul(a.num, b.den), den |-> BigMul(a.den, b.num)]

(* ---------------- PROBS ---------------- *)
\* PROBS["gene"]: unconditional probabilities for having gene
PROBS_gene(g) ==
    CASE g = 2 -> Rat(1, 100)
      [] g = 1 -> Rat(3, 100)
      [] g = 0 -> Rat(96, 100)

\* PROBS["trait"][g][t]: probability of trait status t given g copies
PROBS_trait(g, t) ==
    CASE g = 2 -> (IF t THEN Rat(65, 100) ELSE Rat(35, 100))
      [] g = 1 -> (IF t THEN Rat(56, 100) ELSE Rat(44, 100))
      [] g = 0 -> (IF t THEN Rat(1, 100) ELSE Rat(99, 100))

\* PROBS["mutation"]
PROBS_mutation == Rat(1, 100)

(* ---------------- inputs ---------------- *)
\* largest number of rows of the CSV file
MaxPeople == 3

\* Python's None
None == "<None>"

\* names of the rows, in file order
Universe == <<"Harry", "James", "Lily", "Molly", "Arthur">>

\* a name that is no row of the file
Ghost == "Ghost"

\* the mother and father columns of the first row; every other row has both
\* blank.  Blank/blank, both parents rows of the file, and the malformed
\* shapes: one parent blank, or a parent that is no row of the file.
ParentColumns(n) ==
    {<<"", "">>}
    \cup (IF n >= 3 THEN {<<Universe[3], Universe[2]>>} ELSE {})
    \cup (IF n >= 2
          THEN {<<Universe[2], "">>, <<"", Universe[2]>>, <<Ghost, Universe[2]>>}
          ELSE {})

\* the CSV files read: n rows, trait column "1", "0" or blank
Files ==
    UNION {
      { [i \in 1..n |->
            [name |-> Universe[i],
             mother |-> IF i = 1 THEN pc1[1] ELSE "",
             father |-> IF i = 1 THEN pc1[2] ELSE "",
             trait |-> tr[i]]] :
          pc1 \in ParentColumns(n), tr \in [1..n -> {"1", "0", ""}] }
      : n \in 0..MaxPeople }

\* x or None
OrNone(x) == IF x = "" THEN None ELSE x

\* load_data: the dictionary, as a function of the names
load_data(rows) ==
    [nm \in {rows[i].name : i \in 1..Len(rows)} |->
        LET i == CHOOSE j \in 1..Len(rows) :
                    /\ rows[j].name = nm
                    /\ \A k \in (j+1)..Len(rows) : rows[k].name # nm
            row == rows[i]
        IN  [name |-> row.name,
             mother |-> OrNone(row.mother),
             father |-> OrNone(row.father),
             trait |-> IF row.trait = "1" THEN "True"
                       ELSE IF row.trait = "0" THEN "False" ELSE None]]

\* insertion order of the dictionary load_data builds
RECURSIVE KeyOrder(_)
KeyOrder(rows) ==
    IF rows = <<>> THEN <<>>
    ELSE LET init == KeyOrder(SubSeq(rows, 1, Len(rows) - 1))
             nm == rows[Len(rows)].name
         IN  IF \E i \in 1..Len(init) : init[i] = nm THEN init
             ELSE Append(init, nm)

\* the orders in which a set of names may be iterated
IterationOrders(S) ==
    {f \in [1..Cardinality(S) -> S] : \A i, j \in DOMAIN f : f[i] = f[j] => i = j}

(* ---------------- state ---------------- *)
VARIABLES
    people,         \* load_data's dictionary
    keys,           \* its insertion order, also that of probabilities
    order,          \* iteration order of sets of names in this process
    probabilities,  \* the marginal table
    ht, og, tg,     \* positions of the three nested loops of main (1-based)
    pc,             \* "enumerate", "print", "done", "error"
    printed,        \* names printed so far
    scored,         \* history: the triples passed to joint_probability/update, in call order
    added,          \* history: sum of the p values passed to update
    last,           \* history: arguments and locals of the last call
    before          \* history: the table as normalize received it

vars == <<people, keys, order, probabilities, ht, og, tg, pc, printed,
          scored, added, last, before>>

PyBool(b) == IF b THEN "True" ELSE "False"

(* ---------------- powerset ---------------- *)
\* list(s)
SetList(ord, s) == SelectSeq(ord, LAMBDA x : x \in s)

\* itertools.combinations(l, r), each combination as a set
RECURSIVE Combinations(_, _)
Combinations(l, r) ==
    IF r = 0 THEN << {} >>
    ELSE IF Len(l) < r THEN <<>>
    ELSE LET with == Combinations(Tail(l), r - 1)
         IN  [i \in 1..Len(with) |-> {l[1]} \cup with[i]]
             \o Combinations(Tail(l), r)

RECURSIVE ChainFrom(_, _)
ChainFrom(l, r) ==
    IF r > Len(l) THEN <<>> ELSE Combinations(l, r) \o ChainFrom(l, r + 1)

\* range(len(s)) for range(len(s) + 1): the full set is never produced
powerset_ProperSubsets(ord, s) ==
    LET all == ChainFrom(SetList(ord, s), 0)
    IN  SubSeq(all, 1, Len(all) - 1)

powerset(ord, s) == ChainFrom(SetList(ord, s), 0)

(* ---------------- joint_probability ---------------- *)
\* the mutation rate forgotten
parent_prob_NoMutation(num_genes) == Rat(num_genes, 2)

parent_prob(num_genes) ==
    LET pass_gene == Rat(num_genes, 2)
    IN  RatAdd(RatMul(pass_gene, RatSub(RatOne, PROBS_mutation)),
               RatMul(RatSub(RatOne, pass_gene), PROBS_mutation))

\* 1 if person in one_gene else 2 if person in two_genes else 0
GeneCount(person, one_gene, two_genes) ==
    IF person \in one_gene THEN 1 ELSE IF person \in two_genes THEN 2 ELSE 0

\* the locals of one iteration of joint_probability's loop for a person
\* whose mother is not None
ParentLocals(ppl, person, one_gene, two_genes) ==
    LET mother == ppl[person].mother
        father == ppl[person].father
        mother_genes == GeneCount(mother, one_gene, two_genes)
        father_genes == GeneCount(father, one_gene, two_genes)
    IN  [mother_genes |-> mother_genes,
         father_genes |-> father_genes,
         prob_mother |-> parent_prob(mother_genes),
         prob_father |-> parent_prob(father_genes)]

\* one copy counted as coming from the mother only
PersonFactor_MotherOnly(ppl, person, one_gene, two_genes, have_trait) ==
    LET quant_genes == GeneCount(person, one_gene, two_genes)
        trait_status == person \in have_trait
    IN  IF ppl[person].mother = None
        THEN RatMul(PROBS_gene(quant_genes), PROBS_trait(quant_genes, trait_status))
        ELSE LET loc == ParentLocals(ppl, person, one_gene, two_genes)
                 prob_mother == loc.prob_mother
                 prob_father == loc.prob_father
                 p == IF quant_genes = 0
                      THEN RatMul(RatSub(RatOne, prob_father), RatSub(RatOne, prob_mother))
                      ELSE IF quant_genes = 1
                      THEN RatMul(RatSub(RatOne, prob_father), prob_mother)
                      ELSE RatMul(prob_father, prob_mother)
             IN  RatMul(p, PROBS_trait(quant_genes, trait_status))

\* the trait factor taken for True whatever the assignment says
PersonFactor_TraitTrue(ppl, person, one_gene, two_genes, have_trait) ==
    LET quant_genes == GeneCount(person, one_gene, two_genes)
    IN  IF ppl[person].mother = None
        THEN RatMul(PROBS_gene(quant_genes), PROBS_trait(quant_genes, TRUE))
        ELSE LET loc == ParentLocals(ppl, person, one_gene, two_genes)
                 prob_mother == loc.prob_mother
                 prob_father == loc.prob_father
                 p == IF quant_genes = 0
                      THEN RatMul(RatSub(RatOne, prob_father), RatSub(RatOne, prob_mother))
                      ELSE IF quant_genes = 1
                      THEN RatAdd(RatMul(RatSub(RatOne, prob_father), prob_mother),
                                  RatMul(prob_father, RatSub(RatOne, prob_mother)))
                      ELSE RatMul(prob_father, prob_mother)
             IN  RatMul(p, PROBS_trait(quant_genes, TRUE))

\* the factor one person multiplies into prob
PersonFactor(ppl, person, one_gene, two_genes, have_trait) ==
    LET quant_genes == GeneCount(person, one_gene, two_genes)
        trait_status == person \in have_trait
    IN  IF ppl[person].mother = None
        THEN RatMul(PROBS_gene(quant_genes), PROBS_trait(quant_genes, trait_status))
        ELSE LET loc == ParentLocals(ppl, person, one_gene, two_genes)
                 prob_mother == loc.prob_mother
                 prob_father == loc.prob_father
                 p == IF quant_genes = 0
                      THEN RatMul(RatSub(RatOne, prob_father), RatSub(RatOne, prob_mother))
                      ELSE IF quant_genes = 1
                      THEN RatAdd(RatMul(RatSub(RatOne, prob_father), prob_mother),
                                  RatMul(prob_father, RatSub(RatOne, prob_mother)))
                      ELSE IF quant_genes = 2
                      THEN RatMul(prob_father, prob_mother)
                      ELSE RatZero
             IN  RatMul(p, PROBS_trait(quant_genes, trait_status))

RECURSIVE JointFrom(_, _, _, _, _, _)
JointFrom(ppl, ks, i, one_gene, two_genes, have_trait) ==
    IF i = 0 THEN RatOne
    ELSE RatMul(JointFrom(ppl, ks, i - 1, one_gene, two_genes, have_trait),
                PersonFactor(ppl, ks[i], one_gene, two_genes, have_trait))

joint_probability(ppl, ks, one_gene, two_genes, have_trait) ==
    JointFrom(ppl, ks, Len(ks), one_gene, two_genes, have_trait)

(* ---------------- update ---------------- *)
\* only the persons the assignment mentions are updated
update_OnlyMentioned(probs, one_gene, two_genes, have_trait, p) ==
    [person \in DOMAIN probs |->
        LET quant_genes == GeneCount(person, one_gene, two_genes)
        IN  [gene |-> [g \in 0..2 |->
                        IF g = quant_genes /\ g # 0 THEN RatAdd(probs[person].gene[g], p)
                        ELSE probs[person].gene[g]],
             trait |-> [t \in BOOLEAN |->
                        IF t /\ person \in have_trait THEN RatAdd(probs[person].trait[t], p)
                        ELSE probs[person].trait[t]]]]

update(probs, one_gene, two_genes, have_trait, p) ==
    [person \in DOMAIN probs |->
        LET quant_genes == GeneCount(person, one_gene, two_genes)
            trait_status == person \in have_trait
        IN  [gene |-> [g \in 0..2 |->
                        IF g = quant_genes THEN RatAdd(probs[person].gene[g], p)
                        ELSE probs[person].gene[g]],
             trait |-> [t \in BOOLEAN |->
                        IF t = trait_status THEN RatAdd(probs[person].trait[t], p)
                        ELSE probs[person].trait[t]]]]

(* ---------------- normalize ---------------- *)
\* sum(d.values()) for the gene and the trait dictionary
SumGene(d) == RatAdd(RatAdd(d[2], d[1]), d[0])

SumTrait(d) == RatAdd(d[TRUE], d[FALSE])

\* the trait distribution left as it is
NormalizePerson_GeneOnly(e) ==
    LET total_genes == SumGene(e.gene)
    IN  IF RatIsZero(total_genes) THEN [entry |-> e, raised |-> TRUE]
        ELSE [entry |-> [gene |-> [g \in 0..2 |-> RatDiv(e.gene[g], total_genes)],
                         trait |-> e.trait],
              raised |-> FALSE]

\* one iteration of normalize's loop: the entry as the iteration leaves it,
\* and whether a division raised ZeroDivisionError.  The gene divisions run
\* before the trait divisions; a zero total raises at the first division of
\* its loop.
NormalizePerson(e) ==
    LET total_genes == SumGene(e.gene)
        total_trait == SumTrait(e.trait)
    IN  IF RatIsZero(total_genes) THEN [entry |-> e, raised |-> TRUE]
        ELSE LET genes == [g \in 0..2 |-> RatDiv(e.gene[g], total_genes)]
             IN  IF RatIsZero(total_trait)
                 THEN [entry |-> [gene |-> genes, trait |-> e.trait], raised |-> TRUE]
                 ELSE [entry |-> [gene |-> genes,
                                  trait |-> [t \in BOOLEAN |->
                                               RatDiv(e.trait[t], total_trait)]],
                       raised |-> FALSE]

\* normalize from the i-th key on: the table as the call leaves it (it is
\* changed in place) and whether the call raised
RECURSIVE NormalizeFrom(_, _, _)
NormalizeFrom(probs, ks, i) ==
    IF i > Len(ks) THEN [table |-> probs, raised |-> FALSE]
    ELSE LET r == NormalizePerson(probs[ks[i]])
             t == [probs EXCEPT ![ks[i]] = r.entry]
         IN  IF r.raised THEN [table |-> t, raised |-> TRUE]
             ELSE NormalizeFrom(t, ks, i + 1)

normalize(probs, ks) == NormalizeFrom(probs, ks, 1)

(* ---------------- main ---------------- *)
\* the table main builds before the loops: every weight the integer 0
ZeroTable(ppl) ==
    [person \in DOMAIN ppl |->
        [gene |-> [g \in 0..2 |-> RatZero], trait |-> [t \in BOOLEAN |-> RatZero]]]

NoCall ==
    [one_gene |-> {}, two_genes |-> {}, have_trait |-> {}, p |-> RatZero,
     locals |-> <<>>]

Init ==
    /\ \E rows \in Files :
          /\ people = load_data(rows)
          /\ keys = KeyOrder(rows)
    /\ order \in IterationOrders(DOMAIN people)
    /\ probabilities = ZeroTable(people)
    /\ ht = 1 /\ og = 1 /\ tg = 1
    /\ pc = "enumerate"
    /\ printed = <<>>
    /\ scored = <<>>
    /\ added = RatZero
    /\ last = NoCall
    /\ before = <<>>

names == DOMAIN people

\* only an observed True is checked
fails_evidence_TrueOnly(have_trait) ==
    \E person \in DOMAIN people :
        /\ people[person].trait = "True"
        /\ person \notin have_trait

fails_evidence(have_trait) ==
    \E person \in names :
        /\ people[person].trait # None
        /\ people[person].trait # PyBool(person \in have_trait)

\* the have_trait loop skips a set that violates known information
Skip ==
    /\ pc = "enumerate"
    /\ LET traits == powerset(order, names)
       IN  /\ ht <= Len(traits)
           /\ fails_evidence(traits[ht])
    /\ ht' = ht + 1
    /\ UNCHANGED <<people, keys, order, probabilities, og, tg, pc, printed,
                   scored, added, last, before>>

\* one pass of the innermost loop body: joint_probability, then update
Score ==
    /\ pc = "enumerate"
    /\ LET ones == powerset(order, names)
           have_trait == ones[ht]
           one_gene == ones[og]
           twos == powerset(order, names \ one_gene)
           two_genes == twos[tg]
           p == joint_probability(people, keys, one_gene, two_genes, have_trait)
       IN  /\ ht <= Len(ones)
           /\ ~fails_evidence(have_trait)
           /\ probabilities' = update(probabilities, one_gene, two_genes, have_trait, p)
           /\ IF tg < Len(twos) THEN tg' = tg + 1 /\ UNCHANGED <<og, ht>>
              ELSE IF og < Len(ones) THEN tg' = 1 /\ og' = og + 1 /\ ht' = ht
              ELSE tg' = 1 /\ og' = 1 /\ ht' = ht + 1
           /\ scored' = Append(scored, <<one_gene, two_genes, have_trait>>)
           /\ added' = RatAdd(added, p)
           /\ last' = [one_gene |-> one_gene, two_genes |-> two_genes,
                       have_trait |-> have_trait, p |-> p,
                       locals |-> [person \in {q \in names : people[q].mother # None} |->
                                     ParentLocals(people, person, one_gene, two_genes)]]
    /\ UNCHANGED <<people, keys, order, pc, printed, before>>

\* normalize(probabilities) after the loops; an exception ends main
Normalize ==
    /\ pc = "enumerate"
    /\ ht > Len(powerset(order, names))
    /\ LET r == normalize(probabilities, keys)
       IN  /\ probabilities' = r.table
           /\ pc' = IF r.raised THEN "error"
                    ELSE IF keys = <<>> THEN "done" ELSE "print"
    /\ before' = probabilities
    /\ UNCHANGED <<people, keys, order, ht, og, tg, printed, scored, added, last>>

\* the printing loop stores what it prints back into the table
PrintPerson_Writes ==
    /\ pc = "print"
    /\ LET person == keys[Len(printed) + 1]
       IN  /\ printed' = Append(printed, <<person, probabilities[person]>>)
           /\ probabilities' = [probabilities EXCEPT ![person].gene[0] = RatZero]
    /\ pc' = IF Len(printed) + 1 = Len(keys) THEN "done" ELSE "print"
    /\ UNCHANGED <<people, keys, order, ht, og, tg, scored, added, last, before>>

\* one pass of the printing loop: reads the person's entry
PrintPerson ==
    /\ pc = "print"
    /\ LET person == keys[Len(printed) + 1]
       IN  printed' = Append(printed, <<person, probabilities[person]>>)
    /\ pc' = IF Len(printed) + 1 = Len(keys) THEN "done" ELSE "print"
    /\ UNCHANGED <<people, keys, order, probabilities, ht, og, tg, scored,
                   added, last, before>>

Next == Skip \/ Score \/ Normalize \/ PrintPerson

Spec == Init /\ [][Next]_vars

(* ---------------- normalize on its own ---------------- *)
\* number of persons of the tables normalize is called with
NormPeople == 2

\* the weights of those tables
NormWeights == {RatZero, Rat(1, 4), Rat(2, 3)}

NormKeys == SubSeq(Universe, 1, NormPeople)

NormTables ==
    [{NormKeys[i] : i \in 1..NormPeople} ->
        [gene : [0..2 -> NormWeights], trait : [BOOLEAN -> NormWeights]]]

NormInit ==
    /\ people = <<>>
    /\ keys = NormKeys
    /\ order = <<>>
    /\ probabilities \in NormTables
    /\ ht = 1 /\ og = 1 /\ tg = 1
    /\ pc = "call"
    /\ printed = <<>>
    /\ scored = <<>>
    /\ added = RatZero
    /\ last = NoCall
    /\ before = <<>>

\* a call normalize(probabilities): returns, or raises ZeroDivisionError
NormalizeCall ==
    /\ pc = "call"
    /\ LET r == normalize(probabilities, keys)
       IN  /\ probabilities' = r.table
           /\ pc' = IF r.raised THEN "error" ELSE "returned"
    /\ before' = probabilities
    /\ UNCHANGED <<people, keys, order, ht, og, tg, printed, scored, added, last>>

NormNext == NormalizeCall

NormSpec == NormInit /\ [][NormNext]_vars

(* ---------------- properties ---------------- *)
AfterNormalize == pc \in {"print", "done"}

Range(q) == {q[i] : i \in 1..Len(q)}

RECURSIVE Pow(_, _)
Pow(b, e) == IF e = 0 THEN 1 ELSE b * Pow(b, e - 1)

HasParents(person) == people[person].mother # None /\ people[person].father # None

NoParents(person) == people[person].mother = None /\ people[person].father = None

Unknown == {person \in names : people[person].trait = None}

\* C1: after the enumeration and normalize, every person's three gene
\* weights sum to 1 and the two trait weights sum to 1.
C1_SumsToOne ==
    AfterNormalize =>
        \A person \in names :
            /\ RatEq(SumGene(probabilities[person].gene), RatOne)
            /\ RatEq(SumTrait(probabilities[person].trait), RatOne)

C1_Witness ==
    /\ pc = "done"
    /\ \E person \in names : HasParents(person)
    /\ \E person \in names : people[person].trait = "True"
    /\ \E person \in names :
          /\ people[person].trait = None
          /\ ~RatIsZero(probabilities[person].trait[TRUE])
          /\ ~RatIsZero(probabilities[person].trait[FALSE])
          /\ RatEq(SumTrait(probabilities[person].trait), RatOne)

\* C2: a person whose trait is observed as v ends with probability 1 on v
\* and 0 on the complement, and no call of update is given a have_trait
\* in which an observed person's membership differs from the observation.
C2_ObservedTraitCertain ==
    /\ last # NoCall =>
          \A person \in names :
              people[person].trait # None =>
                  people[person].trait = PyBool(person \in last.have_trait)
    /\ AfterNormalize =>
          \A person \in names :
              people[person].trait # None =>
                  LET v == people[person].trait = "True"
                  IN  /\ RatEq(probabilities[person].trait[v], RatOne)
                      /\ RatIsZero(probabilities[person].trait[~v])

C2_Witness ==
    /\ pc = "done"
    /\ \E person, q \in names :
          /\ people[person].trait = "True"
          /\ people[q].trait = "False"
          /\ HasParents(person)
          /\ RatEq(probabilities[person].trait[TRUE], RatOne)
          /\ RatIsZero(probabilities[q].trait[TRUE])

\* the triples main is to score: disjoint gene sets, have_trait consistent
\* with every observed trait
ConsistentTriples ==
    {t \in (SUBSET names) \X (SUBSET names) \X (SUBSET names) :
        /\ t[1] \cap t[2] = {}
        /\ \A person \in names :
              people[person].trait # None =>
                  people[person].trait = PyBool(person \in t[3])}

\* C3: when the loops of main end, joint_probability/update have been
\* called on every consistent triple with disjoint gene sets, each exactly
\* once, and on no other: 3^n * 2^(number of unknown traits) calls.
C3_EachTripleOnce ==
    pc # "enumerate" =>
        /\ Range(scored) = ConsistentTriples
        /\ Len(scored) = Cardinality(ConsistentTriples)
        /\ Len(scored) = Pow(3, Cardinality(names)) * Pow(2, Cardinality(Unknown))

C3_Witness ==
    /\ pc = "done"
    /\ Cardinality(names) = 3
    /\ Cardinality(Unknown) = 1
    /\ Len(scored) = 54

\* a parent reference that does not resolve, or exactly one parent present
Malformed ==
    \E person \in names :
        \/ (people[person].mother = None) # (people[person].father = None)
        \/ people[person].mother \notin names \cup {None}
        \/ people[person].father \notin names \cup {None}

\* C4: a malformed population is rejected with a failure: main never gets
\* to normalized probabilities for it.
C4_MalformedRejected == Malformed => pc \notin {"print", "done"}

\* some person's gene or trait weights sum to zero
ZeroSum(table) ==
    \E person \in DOMAIN table :
        \/ RatIsZero(SumGene(table[person].gene))
        \/ RatIsZero(SumTrait(table[person].trait))

Child == Universe[1]

Father == Universe[2]

Mother == Universe[3]

IsTrio ==
    /\ names = {Child, Father, Mother}
    /\ people[Child].mother = Mother /\ people[Child].father = Father
    /\ NoParents(Mother) /\ NoParents(Father)
    /\ Unknown = names

\* transmission probability by parent gene count, as the claims state it
Transmit(m) ==
    CASE m = 0 -> Rat(1, 100)
      [] m = 1 -> Rat(1, 2)
      [] m = 2 -> Rat(99, 100)

\* P(child has g copies | mother passes with pm, father passes with pf)
ChildGiven(g, pm, pf) ==
    CASE g = 0 -> RatMul(RatSub(RatOne, pf), RatSub(RatOne, pm))
      [] g = 1 -> RatAdd(RatMul(RatSub(RatOne, pf), pm), RatMul(pf, RatSub(RatOne, pm)))
      [] g = 2 -> RatMul(pf, pm)

RECURSIVE RatSum(_)
RatSum(q) == IF q = <<>> THEN RatZero ELSE RatAdd(q[1], RatSum(Tail(q)))

\* sum over mother count m and father count f of prior(m) prior(f) P(g | m, f)
Convolution(g) ==
    RatSum([k \in 1..9 |->
        LET m == (k - 1) \div 3
            f == (k - 1) % 3
        IN  RatMul(RatMul(PROBS_gene(m), PROBS_gene(f)),
                   ChildGiven(g, Transmit(m), Transmit(f)))])

\* C6: in the trio with no trait observed the Child's final gene
\* distribution is the convolution of the parents' priors through the
\* transmission model, and its three values sum to 1.
C6_ChildConvolution ==
    (AfterNormalize /\ IsTrio) =>
        /\ \A g \in 0..2 : RatEq(probabilities[Child].gene[g], Convolution(g))
        /\ RatEq(RatSum(<<Convolution(0), Convolution(1), Convolution(2)>>), RatOne)

C6_Witness ==
    /\ pc = "done"
    /\ IsTrio
    /\ RatEq(probabilities[Child].gene[1], Convolution(1))
    /\ ~RatEq(probabilities[Child].gene[1], PROBS_gene(1))

\* the trait marginal of a person without parents and without evidence:
\* sum over g of prior(g) * P(trait | g) = 0.96*0.01 + 0.03*0.56 + 0.01*0.65
PriorTrait ==
    RatSum([k \in 1..3 |-> RatMul(PROBS_gene(k - 1), PROBS_trait(k - 1, TRUE))])

\* C7 (as stated): where no person has parents, every person of unknown
\* trait ends with the gene prior and with trait probability 0.0362.
C7_Original ==
    (AfterNormalize /\ \A person \in names : NoParents(person)) =>
        \A person \in Unknown :
            /\ RatEq(probabilities[person].gene[0], Rat(96, 100))
            /\ RatEq(probabilities[person].gene[1], Rat(3, 100))
            /\ RatEq(probabilities[person].gene[2], Rat(1, 100))
            /\ RatEq(probabilities[person].trait[TRUE], Rat(362, 10000))

\* C7 (amended): where no person has parents, every person of unknown
\* trait ends with the gene prior {0: 0.96, 1: 0.03, 2: 0.01} and with trait
\* probability 0.96*0.01 + 0.03*0.56 + 0.01*0.65, which is 0.0329, whatever
\* is observed on the other persons.
C7_PriorWithoutParents ==
    (AfterNormalize /\ \A person \in names : NoParents(person)) =>
        \A person \in Unknown :
            /\ RatEq(probabilities[person].gene[0], Rat(96, 100))
            /\ RatEq(probabilities[person].gene[1], Rat(3, 100))
            /\ RatEq(probabilities[person].gene[2], Rat(1, 100))
            /\ RatEq(probabilities[person].trait[TRUE], PriorTrait)
            /\ RatEq(probabilities[person].trait[TRUE], Rat(329, 10000))

C7_Witness ==
    /\ pc = "done"
    /\ names = {"Harry", "James", "Lily"}
    /\ \A person \in names : NoParents(person)
    /\ people["Harry"].trait = None
    /\ people["James"].trait = "True"
    /\ people["Lily"].trait = "False"
    /\ RatEq(probabilities["Harry"].trait[TRUE], Rat(329, 10000))

\* C8: parent_prob is 0.01, 0.5, 0.99 for 0, 1, 2 copies, and every call
\* of joint_probability uses it for the mother's and the father's count.
C8_TransmissionValues ==
    /\ \A g \in 0..2 : RatEq(parent_prob(g), Transmit(g))
    /\ \A person \in DOMAIN last.locals :
          LET loc == last.locals[person]
          IN  /\ loc.mother_genes =
                    GeneCount(people[person].mother, last.one_gene, last.two_genes)
              /\ loc.father_genes =
                    GeneCount(people[person].father, last.one_gene, last.two_genes)
              /\ RatEq(loc.prob_mother, Transmit(loc.mother_genes))
              /\ RatEq(loc.prob_father, Transmit(loc.father_genes))

C8_Witness ==
    /\ ~Malformed
    /\ \E person \in DOMAIN last.locals :
          /\ last.locals[person].mother_genes = 2
          /\ last.locals[person].father_genes = 1
          /\ RatEq(last.locals[person].prob_mother, Rat(99, 100))
          /\ RatEq(last.locals[person].prob_father, Rat(1, 2))

\* during the enumeration every person's gene weights and trait weights
\* sum to the total of the p values added so far
C9_Sums ==
    pc = "enumerate" =>
        \A person \in names :
            /\ RatEq(SumGene(probabilities[person].gene), added)
            /\ RatEq(SumTrait(probabilities[person].trait), added)

\* a call of update adds p to one gene bucket and one trait bucket of
\* every person and leaves the other buckets as they were
C9_Step ==
    Len(scored') > Len(scored) =>
        \A person \in names :
            LET q == GeneCount(person, last'.one_gene, last'.two_genes)
                h == person \in last'.have_trait
                old == probabilities[person]
                new == probabilities'[person]
            IN  /\ RatEq(new.gene[q], RatAdd(old.gene[q], last'.p))
                /\ \A g \in 0..2 \ {q} : new.gene[g] = old.gene[g]
                /\ RatEq(new.trait[h], RatAdd(old.trait[h], last'.p))
                /\ new.trait[~h] = old.trait[~h]
                /\ ~RatIsZero(last'.p)

\* C9: each update adds p, for every person of the table, to exactly one
\* gene bucket and one trait bucket; so the gene weights and the trait
\* weights of every person sum to the total of the p values added.
C9_UpdateEveryPerson == []C9_Sums /\ [][C9_Step]_vars

C9_Witness ==
    /\ pc = "enumerate"
    /\ Len(scored) >= 2
    /\ \E person \in names :
          /\ person \notin last.one_gene \cup last.two_genes \cup last.have_trait
          /\ ~RatIsZero(probabilities[person].gene[0])
          /\ RatEq(SumGene(probabilities[person].gene), added)

\* the table starts with every weight 0
C10_Start == (pc = "enumerate" /\ scored = <<>>) => probabilities = ZeroTable(people)

\* the table changes only by an update during the enumeration or by the
\* one normalize, which runs when every consistent triple has been scored;
\* after normalize nothing changes it and the enumeration is not resumed
C10_Step ==
    /\ probabilities' # probabilities =>
          /\ pc = "enumerate"
          /\ \/ pc' = "enumerate" /\ Len(scored') = Len(scored) + 1
             \/ pc' # "enumerate" /\ scored' = scored
    /\ (pc = "enumerate" /\ pc' # "enumerate") =>
          /\ Len(scored) = Cardinality(ConsistentTriples)
          /\ before' = probabilities
          /\ pc' \in {"print", "done"}
          /\ \A person \in names :
                RatEq(SumGene(probabilities'[person].gene), RatOne)
    /\ pc # "enumerate" =>
          /\ pc' # "enumerate"
          /\ probabilities' = probabilities
          /\ scored' = scored

\* C10: the table starts all zero, is changed only by update during the
\* enumeration, is normalized once, after the last update, and is not
\* modified afterwards.
C10_Lifecycle == []C10_Start /\ [][C10_Step]_vars

C10_Witness ==
    /\ pc = "done"
    /\ Len(printed) = 3
    /\ before # probabilities
    /\ \A i \in 1..3 : printed[i][2] = probabilities[printed[i][1]]

====
